---- MODULE Spec2Model ----
(***************************************************************************)
(* Temp voice channel manager (src/main.py): preset-named voice channels   *)
(* are created on demand from a name picker, tracked in temp_channel_ids,  *)
(* persisted to data.json, and deleted by a delayed task once empty.       *)
(*                                                                         *)
(* One action is one synchronous segment of a handler or coroutine: the    *)
(* code between two awaits of an external call or sleep.  The effect of an *)
(* external call on the platform happens in the step that resumes the      *)
(* caller.  Time is kept relative: a sleeping task holds the seconds left  *)
(* of its asyncio.sleep, a pending request the seconds left until its      *)
(* expires instant (expires - loop.time()); Tick lets time pass.           *)
(***************************************************************************)
EXTENDS Integers, Sequences, FiniteSets, TLC

(* ---- bounds of the model ---- *)
MaxChannels == 2
MaxViews == 2

(* ---- program constants ---- *)
\* the channel and category ids are read from .env; any distinct values do
DELETE_DELAY_SECONDS == 15
PENDING_TTL_SECONDS == 180
TRIGGER_IRACING == 101
CATEGORY_IRACING == 201
TRIGGER_TRAINING == 102
CATEGORY_TRAINING == 202

NOOP == "__noop__"

\* GROUPS, cut to two of its three groups and to the first presets of each:
\* a group with two names and a group with one
GroupKeys == {"iracing", "training"}

GROUPS ==
  [k \in GroupKeys |->
     IF k = "iracing"
       THEN [trigger_id |-> TRIGGER_IRACING, category_id |-> CATEGORY_IRACING,
             presets |-> <<"stintONE Motorsport", "stintONE Motorsport Black">>]
       ELSE [trigger_id |-> TRIGGER_TRAINING, category_id |-> CATEGORY_TRAINING,
             presets |-> <<"Training">>]]

(* ---- the platform's side ---- *)
Guilds == {"home", "other"}
HomeGuild == "home"
\* a user account and a bot account (member.bot)
Members == {"u1", "b1"}
Bots == {"b1"}
Users == Members \ Bots
ChannelIds == 1..MaxChannels
ViewIds == 1..MaxViews
NoChannel == 0
Names == {NOOP} \cup UNION {{GROUPS[k].presets[i] : i \in 1..Len(GROUPS[k].presets)} : k \in GroupKeys}
TriggerIds == {GROUPS[k].trigger_id : k \in GroupKeys}
\* time passes in steps long enough to end every sleep and every pending request
TickSteps == {PENDING_TTL_SECONDS + 1}

VARIABLES
  channels,          \* live temp voice channels: id -> [name, category]
  nextId,            \* the id the platform gives the next created channel
  voice,             \* member -> channel id the member is connected to, or NoChannel
  file,              \* data.json
  temp_channel_ids,  \* the tracked set
  tasks,             \* the live _runner tasks
  delete_tasks,      \* the registry: channel id -> task id
  pending,           \* member -> pending request
  views,             \* the NamePickerViews and their on_name_selected callback
  ready,             \* the on_ready coroutine
  last               \* the last step taken and its outcome

vars == <<channels, nextId, voice, file, temp_channel_ids, tasks,
          delete_tasks, pending, views, ready, last>>

(* ---- helpers ---- *)
Max(a, b) == IF a >= b THEN a ELSE b

RECURSIVE sorted(_)
sorted(S) ==
  IF S = {} THEN <<>>
  ELSE LET m == CHOOSE x \in S : \A y \in S : x <= y
       IN <<m>> \o sorted(S \ {m})

Range(s) == {s[i] : i \in 1..Len(s)}

Perms(S) ==
  {s \in [1..Cardinality(S) -> S] : \A i, j \in 1..Cardinality(S) : i # j => s[i] # s[j]}

Drop(f, x) == [y \in DOMAIN f \ {x} |-> f[y]]

\* n: the channel id the step is about (the guild count for on_ready), or NoChannel
Step(op, n, out) == [op |-> op, n |-> n, out |-> out]

(* ---- data.json ---- *)
AbsentFile == [kind |-> "absent", ids |-> <<>>]

\* load_data, then state.get("temp_channel_ids", []) turned into a set
load_data == IF file.kind = "absent" THEN {} ELSE Range(file.ids)

\* save_data({"temp_channel_ids": sorted(temp_channel_ids)})
persist(ids) == [kind |-> "valid", ids |-> sorted(ids)]

(* ---- lookups ---- *)
group_for_trigger(channel_id) ==
  IF \E k \in GroupKeys : GROUPS[k].trigger_id = channel_id
    THEN CHOOSE k \in GroupKeys : GROUPS[k].trigger_id = channel_id
    ELSE "None"

\* guild.get_channel(cid) is not None: every channel lives in the home guild
get_channel(guild, cid) == guild = HomeGuild /\ cid \in DOMAIN channels

\* len(channel.members), read from the voice states v
members(v, cid) == {m \in Members : v[m] = cid}

used_voice_names_in_category(category_id) ==
  {channels[c].name : c \in {x \in DOMAIN channels : channels[x].category = category_id}}

(* ---- pending requests ---- *)
NoPending == [set |-> FALSE, guild |-> "None", group |-> "None", expires_in |-> 0]

\* the expiry left unread
Expired_never(item) == FALSE

\* time() > expires
Expired(item) == item.expires_in < 0

\* pending_ok's return value
pending_ok(user_id, guild_id) ==
  LET item == pending[user_id]
  IN IF ~item.set THEN "None"
     ELSE IF item.guild # guild_id THEN "None"
     ELSE IF Expired(item) THEN "None"
     ELSE item.group

\* pending_ok's effect: an expired request is popped
pending_after_ok(user_id, guild_id) ==
  LET item == pending[user_id]
  IN IF item.set /\ item.guild = guild_id /\ Expired(item)
       THEN [pending EXCEPT ![user_id] = NoPending]
       ELSE pending

(* ---- the scheduler ---- *)
FreshTid == CHOOSE t \in 1..(Cardinality(tasks) + 1) : \A k \in tasks : k.tid # t

\* the early return on a registered task left out
ShouldSchedule_again(cid, v) ==
  /\ cid \in temp_channel_ids
  /\ members(v, cid) = {}

\* the early return on an untracked id left out
ShouldSchedule_untracked(cid, v) ==
  /\ cid \notin DOMAIN delete_tasks
  /\ members(v, cid) = {}

\* the three early returns of schedule_delete_if_empty
ShouldSchedule(cid, v) ==
  /\ cid \in temp_channel_ids
  /\ cid \notin DOMAIN delete_tasks
  /\ members(v, cid) = {}

\* a scheduler that registers the task and never starts it
tasks_unarmed(cid, v) == tasks

\* tasks and registry after schedule_delete_if_empty(channel) under voice states v
tasks_after_schedule(cid, v) ==
  IF ShouldSchedule(cid, v)
    THEN tasks \cup {[tid |-> FreshTid, cid |-> cid, pc |-> "sleep",
                      remaining |-> DELETE_DELAY_SECONDS]}
    ELSE tasks

registry_after_schedule(cid, v) ==
  IF ShouldSchedule(cid, v)
    THEN (cid :> FreshTid) @@ delete_tasks
    ELSE delete_tasks

\* delete_tasks.pop(channel.id, None) in _runner's finally
registry_pop(cid) == IF cid \in DOMAIN delete_tasks THEN Drop(delete_tasks, cid) ELSE delete_tasks

(* ---- initial state: first start of a fresh deployment ---- *)
NoChannels == [c \in {} |-> [name |-> NOOP, category |-> NoChannel]]

NoTasks == [c \in {} |-> NoChannel]

NoView == [pc |-> "none", user |-> "None", guild |-> "None", group |-> "None",
           options |-> <<>>, chosen |-> NOOP, created |-> NoChannel]

BootReady == [pc |-> "boot", guilds |-> <<>>, cur |-> "None", cids |-> <<>>,
              cid |-> NoChannel, removed |-> FALSE, boot |-> TRUE, gone |-> {}]

IdleReady == [pc |-> "done", guilds |-> <<>>, cur |-> "None", cids |-> <<>>,
              cid |-> NoChannel, removed |-> FALSE, boot |-> FALSE, gone |-> {}]

Init ==
  /\ channels = NoChannels
  /\ nextId = 1
  /\ voice = [m \in Members |-> NoChannel]
  /\ file = AbsentFile
  /\ temp_channel_ids = load_data
  /\ tasks = {}
  /\ delete_tasks = NoTasks
  /\ pending = [m \in Members |-> NoPending]
  /\ views = [v \in ViewIds |-> NoView]
  /\ ready = BootReady
  /\ last = Step("start", NoChannel, "ok")

(* ---- on_voice_state_update ---- *)
\* a member's voice state changes and the handler runs on it: the member joins,
\* leaves or changes channel (to # voice[m]), or is muted, deafened or starts a
\* stream while connected (to = voice[m])
VoiceStateUpdate(m, to) ==
  LET before == voice[m]
      v2 == [voice EXCEPT ![m] = to]
      leaving == before # NoChannel /\ before # to
      key == group_for_trigger(to)
  IN /\ to # before \/ before # NoChannel
     /\ to \in {NoChannel} \cup TriggerIds \cup DOMAIN channels
     /\ voice' = v2
     /\ tasks' = IF leaving THEN tasks_after_schedule(before, v2) ELSE tasks
     /\ delete_tasks' = IF leaving THEN registry_after_schedule(before, v2) ELSE delete_tasks
     /\ pending' = IF to # NoChannel /\ key # "None" /\ m \notin Bots
                     THEN [pending EXCEPT ![m] =
                             [set |-> TRUE, guild |-> HomeGuild, group |-> key,
                              expires_in |-> PENDING_TTL_SECONDS]]
                     ELSE pending
     /\ last' = Step("voice", IF leaving /\ before \in temp_channel_ids THEN before ELSE NoChannel,
                     IF leaving /\ ShouldSchedule(before, v2) THEN "armed" ELSE "none")
     /\ UNCHANGED <<channels, nextId, file, temp_channel_ids, views, ready>>

(* ---- time ---- *)
Tick(d) ==
  /\ tasks' = {[t EXCEPT !.remaining = IF t.pc = "sleep" THEN Max(0, t.remaining - d) ELSE 0]
                 : t \in tasks}
  /\ pending' = [m \in Members |->
                   IF pending[m].set
                     THEN [pending[m] EXCEPT !.expires_in = Max(-1, pending[m].expires_in - d)]
                     ELSE pending[m]]
  /\ last' = Step("tick", NoChannel, "ok")
  /\ UNCHANGED <<channels, nextId, voice, file, temp_channel_ids,
                 delete_tasks, views, ready>>

(* ---- _runner ---- *)
\* a task that calls delete at its deadline without reading the occupancy
TimerFire_blind(t) ==
  /\ t \in tasks
  /\ t.pc = "sleep"
  /\ t.remaining = 0
  /\ tasks' = (tasks \ {t}) \cup {[t EXCEPT !.pc = "delete"]}
  /\ last' = Step("fire", t.cid, "deleting")
  /\ UNCHANGED <<channels, nextId, voice, file, temp_channel_ids, delete_tasks,
                 pending, views, ready>>

\* after asyncio.sleep(delay): re-read the channel, return or call fresh.delete()
TimerFire(t) ==
  /\ t \in tasks
  /\ t.pc = "sleep"
  /\ t.remaining = 0
  /\ IF ~get_channel(HomeGuild, t.cid)
       THEN /\ temp_channel_ids' = temp_channel_ids \ {t.cid}
            /\ file' = persist(temp_channel_ids')
            /\ tasks' = tasks \ {t}
            /\ delete_tasks' = registry_pop(t.cid)
            /\ last' = Step("fire", t.cid, "vanished")
       ELSE IF members(voice, t.cid) # {}
         THEN /\ tasks' = tasks \ {t}
              /\ delete_tasks' = registry_pop(t.cid)
              /\ last' = Step("fire", t.cid, "occupied")
              /\ UNCHANGED <<temp_channel_ids, file>>
         ELSE /\ tasks' = (tasks \ {t}) \cup {[t EXCEPT !.pc = "delete"]}
              /\ last' = Step("fire", t.cid, "deleting")
              /\ UNCHANGED <<temp_channel_ids, file, delete_tasks>>
  /\ UNCHANGED <<channels, nextId, voice, pending, views, ready>>

\* the platform after deleting channel cid: its members are disconnected
voice_after_delete(cid) == [m \in Members |-> IF voice[m] = cid THEN NoChannel ELSE voice[m]]

\* fresh.delete() succeeds: discard, persist, finally pop
TaskDeleteOk(t) ==
  /\ t \in tasks
  /\ t.pc = "delete"
  /\ t.cid \in DOMAIN channels
  /\ channels' = Drop(channels, t.cid)
  /\ voice' = voice_after_delete(t.cid)
  /\ temp_channel_ids' = temp_channel_ids \ {t.cid}
  /\ file' = persist(temp_channel_ids')
  /\ tasks' = tasks \ {t}
  /\ delete_tasks' = registry_pop(t.cid)
  /\ last' = Step("task_delete", t.cid, "ok")
  /\ UNCHANGED <<nextId, pending, views, ready>>

\* a failed delete that puts the task back to sleep for another try
TaskDeleteFail_retry(t) ==
  /\ t \in tasks
  /\ t.pc = "delete"
  /\ tasks' = (tasks \ {t}) \cup {[t EXCEPT !.pc = "sleep", !.remaining = DELETE_DELAY_SECONDS]}
  /\ last' = Step("task_delete", t.cid, "failed")
  /\ UNCHANGED <<channels, nextId, voice, file, temp_channel_ids, delete_tasks,
                 pending, views, ready>>

\* fresh.delete() raises: return, finally pop
TaskDeleteFail(t) ==
  /\ t \in tasks
  /\ t.pc = "delete"
  /\ tasks' = tasks \ {t}
  /\ delete_tasks' = registry_pop(t.cid)
  /\ last' = Step("task_delete", t.cid, "failed")
  /\ UNCHANGED <<channels, nextId, voice, file, temp_channel_ids,
                 pending, views, ready>>

(* ---- SharedPanelView.open_picker and NamePickerView.refresh_options ---- *)
\* bot.get_guild(guild_id) is not None, with cached the guilds the process holds
\* at that moment: the platform removes a guild from them when the bot is taken
\* out of it and adds it when the bot is invited back, while the interactions of
\* a panel or picker already posted still arrive
get_guild(guild_id, cached) == guild_id \in cached

\* guild.get_channel(category_id) is a CategoryChannel: the configured categories
\* are channels of the home guild
get_category(guild_id, category_id) ==
  guild_id = HomeGuild /\ \E k \in GroupKeys : GROUPS[k].category_id = category_id

\* every preset offered, used or not
available_all(group_key) == GROUPS[group_key].presets

\* available = [n for n in g["presets"] if n not in used]
available(group_key) ==
  LET used == used_voice_names_in_category(GROUPS[group_key].category_id)
      Free(n) == n \notin used
  IN SelectSeq(GROUPS[group_key].presets, Free)

FreeView == CHOOSE v \in ViewIds : views[v].pc = "none" /\ \A w \in ViewIds : views[w].pc = "none" => v <= w

\* a user clicks the panel button in the home guild
OpenPicker(m, cached) ==
  LET group_key == pending_ok(m, HomeGuild)
  IN /\ pending' = pending_after_ok(m, HomeGuild)
     /\ IF group_key = "None"
          THEN /\ last' = Step("open", NoChannel, "denied")
               /\ UNCHANGED views
          ELSE IF ~(get_guild(HomeGuild, cached) /\ get_category(HomeGuild, GROUPS[group_key].category_id))
            THEN /\ last' = Step("open", NoChannel, "config_error")
                 /\ UNCHANGED views
            ELSE /\ \E v \in ViewIds : views[v].pc = "none"
                 /\ views' = [views EXCEPT ![FreeView] =
                                [pc |-> "open", user |-> m, guild |-> HomeGuild,
                                 group |-> group_key, options |-> available(group_key),
                                 chosen |-> NOOP, created |-> NoChannel]]
                 /\ last' = Step("open", NoChannel, IF available(group_key) = <<>> THEN "no_free_names" ELSE "ok")
     /\ UNCHANGED <<channels, nextId, voice, file, temp_channel_ids, tasks,
                    delete_tasks, ready>>

\* the picker is dismissed or times out
ViewClose(v) ==
  /\ views[v].pc = "open"
  /\ views' = [views EXCEPT ![v] = NoView]
  /\ last' = Step("close", NoChannel, "ok")
  /\ UNCHANGED <<channels, nextId, voice, file, temp_channel_ids, tasks,
                 delete_tasks, pending, ready>>

(* ---- NamePickerView.on_name_selected ---- *)
\* the values the select menu of view v offers
Offered(v) == IF views[v].options = <<>> THEN {NOOP} ELSE Range(views[v].options)

\* "Must still be pending for that group"
StillPending(v) == pending_ok(views[v].user, views[v].guild) = views[v].group

\* "Must still be in the matching trigger channel"
InTrigger(v) == voice[views[v].user] = GROUPS[views[v].group].trigger_id

\* the race check left out
NameTaken_unchecked(v) == FALSE

\* "Race check": chosen_name in used
NameTaken(v) ==
  views[v].chosen \in used_voice_names_in_category(GROUPS[views[v].group].category_id)

\* from the callback's start to its await of guild.fetch_member, or of the
\* send_message that reports the guild gone
SelectName(v, name, cached) ==
  /\ views[v].pc = "open"
  /\ name \in Offered(v)
  /\ IF name = NOOP
       THEN /\ last' = Step("select", NoChannel, "noop")
            /\ UNCHANGED <<views, pending>>
       ELSE IF ~StillPending(v)
         THEN /\ pending' = pending_after_ok(views[v].user, views[v].guild)
              /\ last' = Step("select", NoChannel, "not_pending")
              /\ UNCHANGED views
         ELSE IF ~get_guild(views[v].guild, cached)
           THEN /\ views' = [views EXCEPT ![v].pc = "no_guild"]
                /\ last' = Step("select", NoChannel, "no_guild")
                /\ UNCHANGED pending
           ELSE /\ views' = [views EXCEPT ![v].pc = "fetch", ![v].chosen = name]
                /\ last' = Step("select", NoChannel, "fetching")
                /\ UNCHANGED pending
  /\ UNCHANGED <<channels, nextId, voice, file, temp_channel_ids, tasks,
                 delete_tasks, ready>>

\* send_message("I can't access that server anymore.") returns:
\* pending.pop(self.user_id, None), self.stop()
NoGuildSent(v) ==
  /\ views[v].pc = "no_guild"
  /\ pending' = [pending EXCEPT ![views[v].user] = NoPending]
  /\ views' = [views EXCEPT ![v] = NoView]
  /\ last' = Step("no_guild", NoChannel, "ok")
  /\ UNCHANGED <<channels, nextId, voice, file, temp_channel_ids, tasks,
                 delete_tasks, ready>>

\* that send_message raises: the callback ends there, the request is not popped
\* and the view is not stopped
NoGuildSendFail(v) ==
  /\ views[v].pc = "no_guild"
  /\ views' = [views EXCEPT ![v].pc = "open"]
  /\ last' = Step("no_guild", NoChannel, "failed")
  /\ UNCHANGED <<channels, nextId, voice, file, temp_channel_ids, tasks,
                 delete_tasks, pending, ready>>

\* from fetch_member's return to the await of guild.create_voice_channel
FetchMember(v, ok) ==
  LET out == IF ~ok THEN "fetch_failed"
             ELSE IF ~InTrigger(v) THEN "not_in_trigger"
             ELSE IF ~get_category(views[v].guild, GROUPS[views[v].group].category_id)
               THEN "no_category"
             ELSE IF NameTaken(v) THEN "race_lost"
             ELSE "creating"
  IN /\ views[v].pc = "fetch"
     /\ views' = [views EXCEPT ![v].pc = IF out = "creating" THEN "create" ELSE "open",
                               ![v].chosen = IF out = "creating" THEN @ ELSE NOOP]
     /\ last' = Step("check", NoChannel, out)
     /\ UNCHANGED <<channels, nextId, voice, file, temp_channel_ids, tasks,
                    delete_tasks, pending, ready>>

\* create_voice_channel returns: temp_channel_ids.add, persist, then await move_to
CreateOk(v) ==
  /\ views[v].pc = "create"
  /\ nextId <= MaxChannels
  /\ channels' = (nextId :> [name |-> views[v].chosen,
                             category |-> GROUPS[views[v].group].category_id]) @@ channels
  /\ nextId' = nextId + 1
  /\ temp_channel_ids' = temp_channel_ids \cup {nextId}
  /\ file' = persist(temp_channel_ids')
  /\ views' = [views EXCEPT ![v].pc = "move", ![v].created = nextId]
  /\ last' = Step("create", nextId, "ok")
  /\ UNCHANGED <<voice, tasks, delete_tasks, pending, ready>>

\* a failed creation that records a slot and goes on to the move
CreateFail_recording(v) ==
  /\ views[v].pc = "create"
  /\ temp_channel_ids' = temp_channel_ids \cup {nextId}
  /\ file' = persist(temp_channel_ids')
  /\ views' = [views EXCEPT ![v].pc = "move", ![v].created = nextId]
  /\ last' = Step("create", NoChannel, "failed")
  /\ UNCHANGED <<channels, nextId, voice, tasks, delete_tasks, pending, ready>>

\* create_voice_channel raises: "Failed to create/move", return
CreateFail(v) ==
  /\ views[v].pc = "create"
  /\ views' = [views EXCEPT ![v].pc = "open", ![v].chosen = NOOP]
  /\ last' = Step("create", NoChannel, "failed")
  /\ UNCHANGED <<channels, nextId, voice, file, temp_channel_ids, tasks,
                 delete_tasks, pending, ready>>

\* move_to returns: the member is in the created channel (on_voice_state_update
\* runs for the change), then the await of interaction.response.edit_message
MoveOk(v) ==
  LET m == views[v].user
      before == voice[m]
      to == views[v].created
      v2 == [voice EXCEPT ![m] = to]
      leaving == before # to
  IN /\ views[v].pc = "move"
     /\ before # NoChannel
     /\ to \in DOMAIN channels
     /\ voice' = v2
     /\ tasks' = IF leaving THEN tasks_after_schedule(before, v2) ELSE tasks
     /\ delete_tasks' = IF leaving THEN registry_after_schedule(before, v2) ELSE delete_tasks
     /\ views' = [views EXCEPT ![v].pc = "edit_message"]
     /\ last' = Step("move", IF leaving /\ before \in temp_channel_ids THEN before ELSE NoChannel, "ok")
     /\ UNCHANGED <<channels, nextId, file, temp_channel_ids, pending, ready>>

\* move_to raises: "Failed to create/move", return
MoveFail(v) ==
  /\ views[v].pc = "move"
  /\ views' = [views EXCEPT ![v].pc = "open", ![v].chosen = NOOP, ![v].created = NoChannel]
  /\ last' = Step("move_failed", views[v].created, "failed")
  /\ UNCHANGED <<channels, nextId, voice, file, temp_channel_ids, tasks,
                 delete_tasks, pending, ready>>

\* edit_message returns: pending.pop(self.user_id, None), self.stop()
EditOk(v) ==
  /\ views[v].pc = "edit_message"
  /\ pending' = [pending EXCEPT ![views[v].user] = NoPending]
  /\ views' = [views EXCEPT ![v] = NoView]
  /\ last' = Step("edit", views[v].created, "ok")
  /\ UNCHANGED <<channels, nextId, voice, file, temp_channel_ids, tasks,
                 delete_tasks, ready>>

\* edit_message raises outside the try: the callback ends there, the request
\* is not popped and the view is not stopped
EditFail(v) ==
  /\ views[v].pc = "edit_message"
  /\ views' = [views EXCEPT ![v].pc = "open", ![v].chosen = NOOP, ![v].created = NoChannel]
  /\ last' = Step("edit", views[v].created, "failed")
  /\ UNCHANGED <<channels, nextId, voice, file, temp_channel_ids, tasks,
                 delete_tasks, pending, ready>>

(* ---- the platform: a channel is deleted by someone else ---- *)
\* the members of the channel are disconnected, and on_voice_state_update runs
\* for them with before.channel the deleted channel
ExternalDelete(c) ==
  LET v2 == voice_after_delete(c)
      left == members(voice, c) # {}
  IN /\ c \in DOMAIN channels
     /\ channels' = Drop(channels, c)
     /\ voice' = v2
     /\ tasks' = IF left THEN tasks_after_schedule(c, v2) ELSE tasks
     /\ delete_tasks' = IF left THEN registry_after_schedule(c, v2) ELSE delete_tasks
     /\ last' = Step("external_delete", c,
                     IF left /\ ShouldSchedule(c, v2) THEN "armed" ELSE "none")
     /\ UNCHANGED <<nextId, file, temp_channel_ids, pending, views, ready>>

(* ---- restart and on_ready ---- *)
\* a loop over every channel id, tracked or not
snapshot_all(ids, ord) == ord

\* list(temp_channel_ids), in the iteration order ord
snapshot(ids, ord) == LET In(c) == c \in ids IN SelectSeq(ord, In)

\* on_ready's cleanup loop from a point in the iteration to its next await of
\* ch.delete() or to its end: gs the guilds still to visit, cur the guild being
\* visited, cs the ids still to visit in it, live and v the channels and voice
\* states the loop reads
RECURSIVE ReadyRun(_, _, _, _, _, _, _, _)
ReadyRun(gs, cur, cs, ids, removed, ord, live, v) ==
  IF cs # <<>>
    THEN LET c == Head(cs)
         IN IF ~(cur = HomeGuild /\ c \in live)
              THEN ReadyRun(gs, cur, Tail(cs), ids \ {c}, TRUE, ord, live, v)
              ELSE IF members(v, c) = {}
                THEN [pc |-> "deleting", guilds |-> gs, cur |-> cur, cids |-> Tail(cs),
                      cid |-> c, removed |-> removed, ids |-> ids]
                ELSE ReadyRun(gs, cur, Tail(cs), ids, removed, ord, live, v)
    ELSE IF gs # <<>>
      THEN ReadyRun(Tail(gs), Head(gs), snapshot(ids, ord), ids, removed, ord, live, v)
      ELSE [pc |-> "done", guilds |-> <<>>, cur |-> "None", cids |-> <<>>,
            cid |-> NoChannel, removed |-> removed, ids |-> ids]

\* the coroutine's state kept across the await; boot: this run of on_ready is the
\* one that follows the process start; gone: the tracked ids whose channel did
\* not exist when this run started
ReadyState(r, boot, gone) ==
  IF r.pc = "done" THEN IdleReady
  ELSE [pc |-> r.pc, guilds |-> r.guilds, cur |-> r.cur, cids |-> r.cids,
        cid |-> r.cid, removed |-> r.removed, boot |-> boot, gone |-> gone]

\* "if removed: persist()" at the end of the loop
file_after_ready(r) == IF r.pc = "done" /\ r.removed THEN persist(r.ids) ELSE file

\* the process stops and starts again: the module state is rebuilt from data.json
Restart ==
  /\ temp_channel_ids' = load_data
  /\ tasks' = {}
  /\ delete_tasks' = NoTasks
  /\ pending' = [m \in Members |-> NoPending]
  /\ views' = [v \in ViewIds |-> NoView]
  /\ ready' = BootReady
  /\ last' = Step("restart", NoChannel, "ok")
  /\ UNCHANGED <<channels, nextId, voice, file>>

\* on_ready is dispatched with bot.guilds = gs: after the process start, or again
\* later when the gateway session is replaced
ReadyStart(gs, ord) ==
  LET r == ReadyRun(gs, "None", <<>>, temp_channel_ids, FALSE, ord, DOMAIN channels, voice)
  IN /\ ready.pc \in {"boot", "done"}
     /\ temp_channel_ids' = r.ids
     /\ file' = file_after_ready(r)
     /\ ready' = ReadyState(r, ready.pc = "boot", temp_channel_ids \ DOMAIN channels)
     /\ last' = Step("ready", Len(gs), r.pc)
     /\ UNCHANGED <<channels, nextId, voice, tasks, delete_tasks, pending, views>>

\* ch.delete() succeeds: discard, removed = True, and the loop goes on.  The
\* platform disconnects the members who joined the channel while the call was
\* in flight; on_voice_state_update for them runs before on_ready resumes, with
\* the id still tracked (early), or after it, with the id discarded
ReadyDeleteOk(ord, early) ==
  LET c == ready.cid
      v2 == voice_after_delete(c)
      left == members(voice, c) # {}
      r == ReadyRun(ready.guilds, ready.cur, ready.cids, temp_channel_ids \ {c}, TRUE, ord,
                    DOMAIN channels \ {c}, v2)
  IN /\ ready.pc = "deleting"
     /\ c \in DOMAIN channels
     /\ early => left
     /\ channels' = Drop(channels, c)
     /\ voice' = v2
     /\ tasks' = IF early THEN tasks_after_schedule(c, v2) ELSE tasks
     /\ delete_tasks' = IF early THEN registry_after_schedule(c, v2) ELSE delete_tasks
     /\ temp_channel_ids' = r.ids
     /\ file' = file_after_ready(r)
     /\ ready' = ReadyState(r, ready.boot, ready.gone)
     /\ last' = Step("ready_delete", c, "ok")
     /\ UNCHANGED <<nextId, pending, views>>

\* ch.delete() raises: pass, and the loop goes on
ReadyDeleteFail(ord) ==
  LET r == ReadyRun(ready.guilds, ready.cur, ready.cids, temp_channel_ids, ready.removed, ord,
                    DOMAIN channels, voice)
  IN /\ ready.pc = "deleting"
     /\ temp_channel_ids' = r.ids
     /\ file' = file_after_ready(r)
     /\ ready' = ReadyState(r, ready.boot, ready.gone)
     /\ last' = Step("ready_delete", ready.cid, "failed")
     /\ UNCHANGED <<channels, nextId, voice, tasks, delete_tasks, pending, views>>

GuildLists == UNION {Perms(G) : G \in SUBSET Guilds}

\* the guilds the process holds when an interaction arrives: all of them, or all
\* but the home guild after the bot was taken out of it
GuildCaches == {Guilds, Guilds \ {HomeGuild}}

(* ---- specifications ---- *)
\* the bot account stays out of voice except under SpecGrace
Locations == {NoChannel} \cup TriggerIds \cup ChannelIds

\* at most one on_name_selected callback is between its start and its end
NoCallback == \A v \in ViewIds : views[v].pc \in {"none", "open"}

\* at most one picker is shown
NoView_ == \A v \in ViewIds : views[v].pc = "none"

\* allocation: pickers and their callbacks interleave at every await; the user
\* joins and leaves the trigger channels and is moved into the created ones
NextAlloc ==
  \/ \E m \in Users, to \in {NoChannel} \cup TriggerIds : VoiceStateUpdate(m, to)
  \/ \E d \in TickSteps : Tick(d)
  \/ \E m \in Users, cached \in GuildCaches : OpenPicker(m, cached)
  \/ \E v \in ViewIds : ViewClose(v)
  \/ \E v \in ViewIds, name \in Names, cached \in GuildCaches : SelectName(v, name, cached)
  \/ \E v \in ViewIds : NoGuildSent(v)
  \/ \E v \in ViewIds : NoGuildSendFail(v)
  \/ \E v \in ViewIds, ok \in BOOLEAN : FetchMember(v, ok)
  \/ \E v \in ViewIds : CreateOk(v)
  \/ \E v \in ViewIds : CreateFail(v)
  \/ \E v \in ViewIds : MoveOk(v)
  \/ \E v \in ViewIds : MoveFail(v)
  \/ \E v \in ViewIds : EditOk(v)
  \/ \E v \in ViewIds : EditFail(v)
  \/ \E c \in ChannelIds : ExternalDelete(c)

SpecAlloc == Init /\ [][NextAlloc]_vars

\* sequential allocation attempts: a name selection starts only when no other
\* callback is in flight
NextSeq ==
  \/ \E m \in Users, to \in Locations : VoiceStateUpdate(m, to)
  \/ \E d \in TickSteps : Tick(d)
  \/ \E m \in Users, cached \in GuildCaches : OpenPicker(m, cached)
  \/ \E v \in ViewIds : ViewClose(v)
  \/ NoCallback /\ \E v \in ViewIds, name \in Names, cached \in GuildCaches : SelectName(v, name, cached)
  \/ \E v \in ViewIds : NoGuildSent(v)
  \/ \E v \in ViewIds : NoGuildSendFail(v)
  \/ \E v \in ViewIds, ok \in BOOLEAN : FetchMember(v, ok)
  \/ \E v \in ViewIds : CreateOk(v)
  \/ \E v \in ViewIds : CreateFail(v)
  \/ \E v \in ViewIds : MoveOk(v)
  \/ \E v \in ViewIds : MoveFail(v)
  \/ \E v \in ViewIds : EditOk(v)
  \/ \E v \in ViewIds : EditFail(v)
  \/ \E c \in ChannelIds : ExternalDelete(c)

SpecSeq == Init /\ [][NextSeq]_vars

\* the scheduler: one picker at a time creates the channels, members come and
\* go, the delete tasks run
NextEvict ==
  \/ \E m \in Users, to \in Locations : VoiceStateUpdate(m, to)
  \/ \E d \in TickSteps : Tick(d)
  \/ \E t \in tasks : TimerFire(t)
  \/ \E t \in tasks : TaskDeleteOk(t)
  \/ \E t \in tasks : TaskDeleteFail(t)
  \/ NoView_ /\ \E m \in Users, cached \in GuildCaches : OpenPicker(m, cached)
  \/ \E v \in ViewIds : ViewClose(v)
  \/ \E v \in ViewIds, name \in Names, cached \in GuildCaches : SelectName(v, name, cached)
  \/ \E v \in ViewIds : NoGuildSent(v)
  \/ \E v \in ViewIds : NoGuildSendFail(v)
  \/ \E v \in ViewIds, ok \in BOOLEAN : FetchMember(v, ok)
  \/ \E v \in ViewIds : CreateOk(v)
  \/ \E v \in ViewIds : CreateFail(v)
  \/ \E v \in ViewIds : MoveOk(v)
  \/ \E v \in ViewIds : MoveFail(v)
  \/ \E v \in ViewIds : EditOk(v)
  \/ \E v \in ViewIds : EditFail(v)
  \/ \E c \in ChannelIds : ExternalDelete(c)

SpecEvict == Init /\ [][NextEvict]_vars

\* the scheduler as the event loop runs it: time passes, a task whose sleep is
\* over is resumed, and a delete call that was issued returns
SpecEvictFair ==
  /\ SpecEvict
  /\ WF_vars(\E d \in TickSteps : Tick(d))
  /\ \A c \in ChannelIds :
       /\ WF_vars(\E t \in tasks : t.cid = c /\ TimerFire(t))
       /\ WF_vars(\E t \in tasks : t.cid = c /\ (TaskDeleteOk(t) \/ TaskDeleteFail(t)))

\* the channel the platform holds under id c after earlier runs of the process
\* created the presets in turn
AllPresets ==
  <<[group |-> "iracing", name |-> GROUPS["iracing"].presets[1]],
    [group |-> "training", name |-> GROUPS["training"].presets[1]],
    [group |-> "iracing", name |-> GROUPS["iracing"].presets[2]]>>

EarlierChannel(c) ==
  LET p == AllPresets[((c - 1) % Len(AllPresets)) + 1]
  IN [name |-> p.name, category |-> GROUPS[p.group].category_id]

\* a process start after earlier runs: some of the channels they created still
\* exist, data.json holds the ids they left tracked
InitRestart ==
  /\ \E live \in SUBSET ChannelIds : channels = [c \in live |-> EarlierChannel(c)]
  /\ nextId = MaxChannels + 1
  /\ voice = [m \in Members |-> NoChannel]
  /\ \E ids \in SUBSET ChannelIds : file = IF ids = {} THEN AbsentFile ELSE persist(ids)
  /\ temp_channel_ids = load_data
  /\ tasks = {}
  /\ delete_tasks = NoTasks
  /\ pending = [m \in Members |-> NoPending]
  /\ views = [v \in ViewIds |-> NoView]
  /\ ready = BootReady
  /\ last = Step("restart", NoChannel, "ok")

\* restart and reconciliation: on_ready, the delete tasks, members coming and going
NextRestart ==
  \/ \E m \in Users, to \in Locations : VoiceStateUpdate(m, to)
  \/ \E d \in TickSteps : Tick(d)
  \/ \E t \in tasks : TimerFire(t)
  \/ \E t \in tasks : TaskDeleteOk(t)
  \/ \E t \in tasks : TaskDeleteFail(t)
  \/ \E c \in ChannelIds : ExternalDelete(c)
  \/ Restart
  \/ \E gs \in GuildLists, ord \in Perms(ChannelIds) : ReadyStart(gs, ord)
  \/ \E ord \in Perms(ChannelIds), early \in BOOLEAN : ReadyDeleteOk(ord, early)
  \/ \E ord \in Perms(ChannelIds) : ReadyDeleteFail(ord)

SpecRestart == InitRestart /\ [][NextRestart]_vars

(* ---- the store under crashes and foreign documents ---- *)
\* data.json with content json.loads rejects: empty, half-written, not JSON
Unparseable == [kind |-> "unparseable", ids |-> <<>>]

\* a JSON object without the key "temp_channel_ids"
NoKey == [kind |-> "no_key", ids |-> <<>>]

\* JSON that is not an object (an array, a number, a string, null)
NotObject == [kind |-> "not_object", ids |-> <<>>]

\* a JSON object whose "temp_channel_ids" is not a list (null, a number)
BadIds == [kind |-> "bad_ids", ids |-> <<>>]

\* every kind of document the process can find at its start
Documents ==
  {AbsentFile, Unparseable, NoKey, NotObject, BadIds}
    \cup {persist(ids) : ids \in SUBSET ChannelIds}

\* state.get(...) or set(...) raises at import: load_data returned a value that
\* is not a dict, or one whose "temp_channel_ids" is not iterable
load_aborts == file.kind \in {"not_object", "bad_ids"}

\* data.json after the process is killed at some point of save_data's
\* write_text of the set ids: not yet opened, opened (truncated) and written in
\* part, or written in full
crashed_save(ids) == {file, Unparseable, persist(ids)}

\* no process is running
OffReady == [pc |-> "off", guilds |-> <<>>, cur |-> "None", cids |-> <<>>,
             cid |-> NoChannel, removed |-> FALSE, boot |-> FALSE, gone |-> {}]

\* the process ended with an uncaught exception at import
AbortedReady == [pc |-> "aborted", guilds |-> <<>>, cur |-> "None", cids |-> <<>>,
                 cid |-> NoChannel, removed |-> FALSE, boot |-> FALSE, gone |-> {}]

Running == ready.pc \notin {"off", "aborted"}

\* the process starts: the module state is built from data.json
Startup ==
  /\ ready.pc = "off"
  /\ IF load_aborts
       THEN /\ ready' = AbortedReady
            /\ last' = Step("startup", NoChannel, "aborted")
            /\ UNCHANGED temp_channel_ids
       ELSE /\ temp_channel_ids' = load_data
            /\ ready' = BootReady
            /\ last' = Step("startup", NoChannel, "ok")
  /\ UNCHANGED <<channels, nextId, voice, file, tasks, delete_tasks, pending, views>>

\* the process is killed while _runner's persist() writes data.json: after the
\* task found its channel gone, or after its delete call succeeded
TaskSaveCrash(t, f) ==
  LET deleted == t.pc = "delete"
  IN /\ t \in tasks
     /\ \/ t.pc = "sleep" /\ t.remaining = 0 /\ ~get_channel(HomeGuild, t.cid)
        \/ t.pc = "delete" /\ t.cid \in DOMAIN channels
     /\ f \in crashed_save(temp_channel_ids \ {t.cid})
     /\ file' = f
     /\ channels' = IF deleted THEN Drop(channels, t.cid) ELSE channels
     /\ voice' = IF deleted THEN voice_after_delete(t.cid) ELSE voice
     /\ temp_channel_ids' = {}
     /\ tasks' = {}
     /\ delete_tasks' = NoTasks
     /\ pending' = [m \in Members |-> NoPending]
     /\ views' = [v \in ViewIds |-> NoView]
     /\ ready' = OffReady
     /\ last' = Step("save_crash", t.cid, f.kind)
     /\ UNCHANGED nextId

\* on_voice_state_update for a member the platform disconnected from channel c,
\* which no longer exists: schedule_delete_if_empty(before.channel)
LeaveDeleted(c) ==
  /\ c \notin DOMAIN channels
  /\ tasks' = tasks_after_schedule(c, voice)
  /\ delete_tasks' = registry_after_schedule(c, voice)
  /\ last' = Step("leave_deleted", c, IF ShouldSchedule(c, voice) THEN "armed" ELSE "none")
  /\ UNCHANGED <<channels, nextId, voice, file, temp_channel_ids, pending, views, ready>>

\* the process finds whatever document is there, with some of the channels of
\* earlier runs still existing
InitStore ==
  /\ \E live \in SUBSET ChannelIds : channels = [c \in live |-> EarlierChannel(c)]
  /\ nextId = MaxChannels + 1
  /\ voice = [m \in Members |-> NoChannel]
  /\ file \in Documents
  /\ temp_channel_ids = {}
  /\ tasks = {}
  /\ delete_tasks = NoTasks
  /\ pending = [m \in Members |-> NoPending]
  /\ views = [v \in ViewIds |-> NoView]
  /\ ready = OffReady
  /\ last = Step("start", NoChannel, "ok")

\* start, reconciliation, the delete tasks, and crashes during their saves
NextStore ==
  \/ Startup
  \/ Running /\ \E m \in Users, to \in Locations : VoiceStateUpdate(m, to)
  \/ Running /\ \E d \in TickSteps : Tick(d)
  \/ \E t \in tasks : TimerFire(t)
  \/ \E t \in tasks : TaskDeleteOk(t)
  \/ \E t \in tasks : TaskDeleteFail(t)
  \/ \E t \in tasks, f \in Documents : TaskSaveCrash(t, f)
  \/ Running /\ \E c \in ChannelIds : ExternalDelete(c)
  \/ Running /\ \E c \in ChannelIds : LeaveDeleted(c)
  \/ \E gs \in GuildLists, ord \in Perms(ChannelIds) : ReadyStart(gs, ord)
  \/ \E ord \in Perms(ChannelIds), early \in BOOLEAN : ReadyDeleteOk(ord, early)
  \/ \E ord \in Perms(ChannelIds) : ReadyDeleteFail(ord)

SpecStore == InitStore /\ [][NextStore]_vars

(* ---- the grace period in fine time ---- *)
\* time passes in thirds of the grace period
GraceSteps == {DELETE_DELAY_SECONDS \div 3}

\* no sleep is over: the event loop resumes a task that is due before it lets
\* more time pass
NoneDue == \A t \in tasks : ~(t.pc = "sleep" /\ t.remaining = 0)

\* users come and go between the existing channels, a bot account between
\* every voice channel, while on_ready and the delete tasks run
NextGrace ==
  \/ \E m \in Users, to \in {NoChannel} \cup ChannelIds : VoiceStateUpdate(m, to)
  \/ \E m \in Bots, to \in Locations : VoiceStateUpdate(m, to)
  \/ NoneDue /\ \E d \in GraceSteps : Tick(d)
  \/ \E t \in tasks : TimerFire(t)
  \/ \E t \in tasks : TaskDeleteOk(t)
  \/ \E t \in tasks : TaskDeleteFail(t)
  \/ \E gs \in GuildLists, ord \in Perms(ChannelIds) : ReadyStart(gs, ord)
  \/ \E ord \in Perms(ChannelIds), early \in BOOLEAN : ReadyDeleteOk(ord, early)
  \/ \E ord \in Perms(ChannelIds) : ReadyDeleteFail(ord)

SpecGrace == InitRestart /\ [][NextGrace]_vars

(* ---- the claims ---- *)
\* the live slots: tracked ids whose channel exists
LiveSlots == temp_channel_ids \cap DOMAIN channels

\* every preset name of group k is in use in the group's category
AllUsed(k) == Range(GROUPS[k].presets) \subseteq used_voice_names_in_category(GROUPS[k].category_id)

\* C1: under sequential allocation attempts, in every reachable state no two
\* live channels of a group's category hold the same preset name.
C1_NoDuplicateNames ==
  \A c1, c2 \in DOMAIN channels :
    (c1 # c2 /\ channels[c1].category = channels[c2].category)
      => channels[c1].name # channels[c2].name

\* a selection of a name that a completed creation holds was refused by the race check
C1_Witness ==
  /\ last.op = "check"
  /\ last.out = "race_lost"
  /\ \E c \in LiveSlots : channels[c].category = CATEGORY_IRACING

\* C2: at any instant, also when two name selections of a group interleave at
\* the create call, a preset name is held by at most one live slot of the group.
C2_OneSlotPerName ==
  \A c1, c2 \in LiveSlots :
    (channels[c1].category = channels[c2].category /\ channels[c1].name = channels[c2].name)
      => c1 = c2

\* C3: when every preset name of the group is in use, an allocation attempt
\* fails: a picker opened then offers no name, a picker that offers no name never
\* starts a creation, and a selection from a picker built earlier is refused at
\* its race check; the refusal creates no channel, records no slot and leaves
\* data.json as it is.
C3_NoCapacity ==
  [][\A v \in ViewIds :
       /\ (views[v].pc = "none" /\ views'[v].pc = "open" /\ AllUsed(views'[v].group))
            => (views'[v].options = <<>> /\ last'.out = "no_free_names")
       /\ (views[v].pc = "open" /\ views[v].options = <<>>)
            => views'[v].pc \in {"open", "none"}
       /\ (views[v].pc = "fetch" /\ views'[v] # views[v] /\ AllUsed(views[v].group))
            => /\ views'[v].pc = "open"
               /\ channels' = channels
               /\ temp_channel_ids' = temp_channel_ids
               /\ file' = file]_vars

\* both names of the group are in use and a selection from a picker built
\* earlier has just been refused
C3_Witness ==
  /\ AllUsed("iracing")
  /\ \A c \in DOMAIN channels : channels[c].category = CATEGORY_IRACING
  /\ last = Step("check", NoChannel, "race_lost")

\* C5: a delete task that reaches its deadline while its channel is occupied
\* again ends without deleting: the channel stays, the slot stays tracked,
\* data.json is not rewritten and no delete call is in flight for the slot.
C5_OccupiedAtDeadline ==
  [][\A t \in tasks :
       (/\ t.pc = "sleep"
        /\ t.remaining = 0
        /\ t \notin tasks'
        /\ t.cid \in DOMAIN channels
        /\ \E m \in Members : voice[m] = t.cid)
         => /\ channels' = channels
            /\ t.cid \in temp_channel_ids'
            /\ temp_channel_ids' = temp_channel_ids
            /\ file' = file
            /\ \A u \in tasks' : u.cid # t.cid]_vars

\* a task has just found its channel occupied at the deadline
C5_Witness ==
  \E c \in LiveSlots :
    /\ last = Step("fire", c, "occupied")
    /\ members(voice, c) # {}

\* C8: at most one delete task is outstanding per slot id, and the registry
\* holds exactly the outstanding tasks, each under its own channel id.
C8_OneTimerPerSlot ==
  /\ \A t1, t2 \in tasks : t1.cid = t2.cid => t1 = t2
  /\ \A t \in tasks : t.cid \in DOMAIN delete_tasks /\ delete_tasks[t.cid] = t.tid
  /\ \A c \in DOMAIN delete_tasks : \E t \in tasks : t.cid = c

\* the member has left a slot again while the task of an earlier leave is still
\* outstanding: schedule_delete_if_empty was called and armed nothing
C8_Witness ==
  \E c \in LiveSlots :
    /\ last = Step("voice", c, "none")
    /\ members(voice, c) = {}
    /\ c \in DOMAIN delete_tasks

\* C9: a name selection goes on to its checks only if the requester's pending
\* request is set for the picker's guild and group and has not expired; it goes
\* on to the create call only if the requester is then in the group's trigger
\* channel; and a channel is created or a slot recorded only by a selection
\* that passed both checks.
C9_HonoredOnlyWhilePending ==
  [][/\ \A v \in ViewIds :
          /\ (views[v].pc # "fetch" /\ views'[v].pc = "fetch")
               => /\ pending[views'[v].user].set
                  /\ pending[views'[v].user].guild = views'[v].guild
                  /\ pending[views'[v].user].group = views'[v].group
                  /\ pending[views'[v].user].expires_in >= 0
          /\ (views[v].pc # "create" /\ views'[v].pc = "create")
               => /\ views[v].pc = "fetch"
                  /\ voice[views[v].user] = GROUPS[views[v].group].trigger_id
     /\ \A c \in ChannelIds :
          (c \in (DOMAIN channels' \ DOMAIN channels) \/ c \in (temp_channel_ids' \ temp_channel_ids))
            => \E v \in ViewIds : views[v].pc = "create" /\ views'[v].created = c]_vars

\* a selection that passed the checks has created its channel
C9_Witness ==
  \E c \in LiveSlots :
    /\ last = Step("create", c, "ok")
    /\ \E v \in ViewIds : views[v].pc = "move" /\ views[v].created = c

\* C10: when create_voice_channel fails, no slot is added to the tracked set,
\* data.json is not written, no channel exists that did not before, and the
\* callback does not go on to move the requester.
C10_CreateFailed ==
  [][\A v \in ViewIds :
       (views[v].pc = "create" /\ views'[v].pc # "create" /\ channels' = channels)
         => /\ temp_channel_ids' = temp_channel_ids
            /\ file' = file
            /\ voice' = voice
            /\ views'[v].pc = "open"
            /\ views'[v].created = NoChannel]_vars

\* a creation has just failed and the picker is back to its menu
C10_Witness ==
  /\ last = Step("create", NoChannel, "failed")
  /\ \E v \in ViewIds : views[v].pc = "open" /\ views[v].chosen = NOOP

\* the last member has just left the tracked, existing channel c
LeftEmpty(c) ==
  /\ last.op \in {"voice", "move"}
  /\ last.n = c
  /\ c \in LiveSlots
  /\ members(voice, c) = {}

\* channel c is gone, untracked and absent from data.json
Deleted(c) ==
  /\ c \notin DOMAIN channels
  /\ c \notin temp_channel_ids
  /\ c \notin Range(file.ids)

\* C4: a tracked slot that the last member leaves is, unless it is occupied
\* again or its delete call fails, deleted: the channel is gone, the slot is
\* untracked and data.json is rewritten without it; and it is deleted once: the
\* step in which a task's delete call succeeds leaves no task for the slot.
C4_DeletedOnce ==
  /\ \A c \in ChannelIds :
       LeftEmpty(c) ~> \/ members(voice, c) # {}
                       \/ Deleted(c)
                       \/ last = Step("task_delete", c, "failed")
  /\ [][\A c \in ChannelIds :
          (c \in DOMAIN channels /\ last' = Step("task_delete", c, "ok"))
            => /\ Deleted(c)'
               /\ \A t \in tasks' : t.cid # c
               /\ c \notin DOMAIN delete_tasks']_vars

\* a slot's task has deleted its channel after the grace period
C4_Witness ==
  \E c \in ChannelIds :
    /\ last = Step("task_delete", c, "ok")
    /\ Deleted(c)
    /\ file.kind = "valid"

\* the tracked ids whose channel did not exist when the run of on_ready that
\* follows the process start began
GoneAtStart == IF ready.pc = "boot" THEN temp_channel_ids \ DOMAIN channels ELSE ready.gone

\* C6: when the run of on_ready that follows a process start completes, every
\* persisted slot whose channel did not exist at its start is out of the tracked
\* set and out of data.json, and no delete task is armed for it.
C6_GoneSlotRemoved ==
  [][(ready.boot /\ ready.pc \in {"boot", "deleting"} /\ ready'.pc = "done")
       => \A c \in GoneAtStart :
            /\ c \notin temp_channel_ids'
            /\ c \notin Range(file'.ids)
            /\ \A t \in tasks' : t.cid # c]_vars

\* C7: the run of on_ready that follows a process start deletes no tracked slot
\* whose channel exists and is empty, and when it completes a delete task
\* sleeps for every such slot.
C7_TimerArmedAtRestart ==
  [][(ready.boot /\ ready.pc \in {"boot", "deleting"} /\ ready' # ready)
       => /\ \A c \in LiveSlots :
               members(voice, c) = {} => (c \in DOMAIN channels' /\ c \in temp_channel_ids')
          /\ ready'.pc = "done"
               => \A c \in LiveSlots' :
                    members(voice', c) = {}
                      => \E t \in tasks' : t.cid = c /\ t.pc = "sleep"]_vars

\* the move into the created, tracked channel c has just failed and c is empty
MoveFailed(c) ==
  /\ last = Step("move_failed", c, "failed")
  /\ c \in LiveSlots
  /\ members(voice, c) = {}

\* C11: when the move into the created channel fails, the slot stays tracked and
\* persisted and the channel stays; and the empty channel is then, unless a
\* member joins it or its delete call fails, eventually gone.
C11_EvictedAfterMoveFail ==
  /\ [][\A v \in ViewIds :
          (views[v].pc = "move" /\ views'[v].pc = "open")
            => /\ channels' = channels
               /\ temp_channel_ids' = temp_channel_ids
               /\ file' = file]_vars
  /\ \A c \in ChannelIds :
       MoveFailed(c) ~> \/ members(voice, c) # {}
                        \/ c \notin DOMAIN channels
                        \/ last = Step("task_delete", c, "failed")

\* C12: at every suspension point and after every handler, task step and
\* on_ready step (every state of the model is one), the slot set data.json holds
\* equals the tracked set in memory.
C12_SavedBeforeYield == load_data = temp_channel_ids

\* C13: a crash during a save never destroys the saved state: the set loaded
\* after the crash is the set saved before it or the set being saved.
C13_SaveSurvivesCrash ==
  [][last'.op = "save_crash"
       => load_data' \in {load_data, temp_channel_ids \ {last'.n}}]_vars

\* C14: whatever document the process finds at its start, it loads a slot set,
\* the empty set unless the document is valid, and does not abort.
C14_LoadNeverAborts ==
  [][(ready.pc = "off" /\ ready' # ready)
       => /\ ready'.pc = "boot"
          /\ temp_channel_ids' = IF file.kind = "valid" THEN Range(file.ids) ELSE {}]_vars

\* C15: schedule_delete_if_empty called for a channel that is deleted and
\* untracked arms no task, registers nothing, issues no delete and writes
\* nothing, each time it is called.
C15_DeleteIfEmptyIdempotent ==
  [][\A c \in ChannelIds :
       (/\ last'.op = "leave_deleted"
        /\ last'.n = c
        /\ c \notin temp_channel_ids
        /\ c \notin DOMAIN channels)
         => /\ last'.out = "none"
            /\ tasks' = tasks
            /\ delete_tasks' = delete_tasks
            /\ channels' = channels
            /\ temp_channel_ids' = temp_channel_ids
            /\ file' = file]_vars

\* the handler has run for a deleted, untracked channel while another slot is
\* tracked and the process is up
C15_Witness ==
  \E c \in ChannelIds :
    /\ last = Step("leave_deleted", c, "none")
    /\ c \notin temp_channel_ids
    /\ c \notin DOMAIN channels
    /\ temp_channel_ids # {}
    /\ tasks = {}

\* C16: every transition of a tracked slot to empty re-arms its delete task:
\* right after the last member has left, the slot's task has the whole grace
\* period ahead, so that no fire deletes the slot sooner than one grace period
\* after its most recent transition to empty.
C16_RearmedOnEveryLeave ==
  [][\A c \in ChannelIds :
       LeftEmpty(c)'
         => \E t \in tasks' :
              /\ t.cid = c
              /\ t.pc = "sleep"
              /\ t.remaining = DELETE_DELAY_SECONDS]_vars

\* C17: when a member joins a tracked slot, the slot's delete task is
\* cancelled: right after the join is handled no task is outstanding and no
\* registry entry is left for the slot.
C17_JoinCancelsTimer ==
  [][\A m \in Members, c \in ChannelIds :
       (/\ voice[m] # c
        /\ voice'[m] = c
        /\ c \in temp_channel_ids
        /\ last'.op \in {"voice", "move"})
         => /\ c \notin DOMAIN delete_tasks'
            /\ \A t \in tasks' : t.cid # c]_vars

\* C18: when a task's delete call fails, the failure is swallowed: the slot
\* stays tracked, data.json and the channels are unchanged, the task ends and
\* its registry entry is cleared; and a slot without a task gets one only in
\* the step of a member leaving it, so the delete is not tried again before.
C18_DeleteFailureSwallowed ==
  [][\A c \in ChannelIds :
       /\ last' = Step("task_delete", c, "failed")
            => /\ temp_channel_ids' = temp_channel_ids
               /\ (c \in temp_channel_ids => c \in temp_channel_ids')
               /\ file' = file
               /\ channels' = channels
               /\ c \notin DOMAIN delete_tasks'
               /\ \A u \in tasks' : u.cid # c
       /\ ((\A t \in tasks : t.cid # c) /\ (\E t \in tasks' : t.cid = c))
            => /\ last'.op \in {"voice", "move", "external_delete"}
               /\ last'.n = c]_vars

\* a delete call has just failed: the channel is still there, tracked, with no task
C18_Witness ==
  \E c \in LiveSlots :
    /\ last = Step("task_delete", c, "failed")
    /\ c \notin DOMAIN delete_tasks
    /\ \A t \in tasks : t.cid # c
    /\ c \in Range(file.ids)

\* C19: every delete the program issues targets an id that was tracked when
\* its task was armed or when on_ready examined it: a task starts only for a
\* tracked id and calls delete only for the id it was started for, on_ready
\* calls delete only for an id it holds as tracked, and a channel the program
\* removes is the target of such a call.
C19_DeletesOnlyTracked ==
  [][/\ \A t \in tasks' :
          (\A u \in tasks : ~(u.tid = t.tid /\ u.cid = t.cid))
            => (t.pc = "sleep" /\ t.cid \in temp_channel_ids)
     /\ (ready'.pc = "deleting" /\ ready' # ready)
          => (ready'.cid \in temp_channel_ids /\ ready'.cid \in temp_channel_ids')
     /\ \A c \in DOMAIN channels \ DOMAIN channels' :
          last'.op \in {"task_delete", "ready_delete"}
            => \/ \E t \in tasks : t.cid = c /\ t.pc = "delete"
               \/ ready.pc = "deleting" /\ ready.cid = c]_vars

\* a task has deleted its slot's channel while an empty channel that is not
\* tracked is left alone
C19_Witness ==
  \E c \in ChannelIds, d \in DOMAIN channels :
    /\ last = Step("task_delete", c, "ok")
    /\ c \notin DOMAIN channels
    /\ d \notin temp_channel_ids
    /\ d \notin Range(file.ids)
    /\ members(voice, d) = {}

\* C20: a run of on_ready with the process connected to every guild, the
\* channels' own among them, untracks a slot only when its channel is absent or
\* was deleted by on_ready's own delete call; a slot whose channel exists and is
\* occupied stays tracked and stays in data.json.
C20_OccupiedSlotsKept ==
  [][(\/ last'.op = "ready" /\ last'.n = Cardinality(Guilds)
      \/ last'.op = "ready_delete")
       => /\ \A c \in temp_channel_ids \ temp_channel_ids' : c \notin DOMAIN channels'
          /\ \A c \in LiveSlots :
               (members(voice, c) # {} /\ c \in Range(file.ids))
                 => (c \in temp_channel_ids' /\ c \in Range(file'.ids))]_vars

====
